---- MODULE Spec2Model ----
(***************************************************************************)
(* Model of merger_automatic_Nov4_versions.C: MergeSingleGenFiles (the     *)
(* merge driver and the root-level loop) and MergeDirectories (the nested  *)
(* loop).  A container is a sequence of keys; a key is a record            *)
(*   [name, kind, ptype, data, err, keys]                                  *)
(* kind "H" = TH1 (data = bin contents, err = bin errors), "P" =           *)
(* TParameter<ptype> (data = <<value>>), "T" = TTree (data = row ids),     *)
(* "D" = TDirectory (keys = its own keys), "O" = any other class.          *)
(* A double is a binary floating point number, rounded to nearest-even     *)
(* with a significand of MantBits bits, written as an integer number of    *)
(* quanta of 2^-FracBits.                                                  *)
(***************************************************************************)
EXTENDS Integers, Sequences, FiniteSets, TLC

VARIABLES inputFiles, pc, gDirectory, stack, written, mkdirs, warnings,
          messages, visited, objCount, closed, outputFile

vars == <<inputFiles, pc, gDirectory, stack, written, mkdirs, warnings,
          messages, visited, objCount, closed, outputFile>>

\* ---------------------------------------------------------------- bounds
MaxFiles == 3
MaxRecords == 3
MaxDepth == 2
NbinsX == 1
MantBits == 4
FracBits == 4

\* ---------------------------------------------------------------- double
RECURSIVE Pow2(_)
Pow2(n) == IF n <= 0 THEN 1 ELSE 2 * Pow2(n - 1)

Quantum == Pow2(FracBits)

RECURSIVE BitLen(_)
BitLen(k) == IF k <= 0 THEN 0 ELSE 1 + BitLen(k \div 2)

Abs(k) == IF k < 0 THEN 0 - k ELSE k

\* the spacing of the representable numbers around a magnitude of q quanta
Ulp(q) == IF BitLen(q) <= MantBits THEN 1 ELSE Pow2(BitLen(q) - MantBits)

\* num/den (den > 0) rounded to the nearest double, ties to even
RoundQ(num, den) ==
    LET a     == Abs(num)
        u     == Ulp(a \div den)
        lower == (a \div (den * u)) * u
        rem2  == 2 * (a - lower * den)
        half2 == u * den
        mag   == IF rem2 < half2 THEN lower
                 ELSE IF rem2 > half2 THEN lower + u
                 ELSE IF (lower \div u) % 2 = 0 THEN lower ELSE lower + u
    IN IF num < 0 THEN 0 - mag ELSE mag

FAdd(x, y) == RoundQ(x + y, 1)
FSub(x, y) == RoundQ(x - y, 1)
FMul(x, y) == RoundQ(x * y, Quantum)
FDivN(x, n) == RoundQ(x, n)

\* the value a double holds for a small integer v
D(v) == v * Quantum

NaN == 0 - 1

Isqrt(x) == CHOOSE s \in 0..(x + 1) : s * s <= x /\ (s + 1) * (s + 1) > x

\* std::sqrt: NaN for a negative argument, else the correctly rounded root
Sqrt(x) ==
    IF x < 0 THEN NaN
    ELSE LET big == x * Quantum
             s   == Isqrt(big)
             u   == Ulp(s)
             lower == (s \div u) * u
         IN IF u = 1
            THEN (IF big <= s * s + s THEN s ELSE s + 1)
            ELSE LET mid == lower + (u \div 2)
                 IN IF big < mid * mid THEN lower
                    ELSE IF big > mid * mid THEN lower + u
                    ELSE IF (lower \div u) % 2 = 0 THEN lower ELSE lower + u

\* std::accumulate(b, e, 0.0)
RECURSIVE Accumulate(_, _)
Accumulate(s, init) ==
    IF s = <<>> THEN init ELSE Accumulate(Tail(s), FAdd(init, Head(s)))

\* std::inner_product(b, e, b, 0.0)
RECURSIVE InnerProduct(_, _)
InnerProduct(s, init) ==
    IF s = <<>> THEN init
    ELSE InnerProduct(Tail(s), FAdd(init, FMul(Head(s), Head(s))))

BinMean(binContents) == FDivN(Accumulate(binContents, 0), Len(binContents))

BinStddev(binContents) ==
    LET mean   == BinMean(binContents)
        sq_sum == InnerProduct(binContents, 0)
    IN Sqrt(FSub(FDivN(sq_sum, Len(binContents)), FMul(mean, mean)))

\* ------------------------------------------------------------ containers
OutFile == 0
NoFile == 0 - 1

LeafKinds == {"H", "P", "T", "O"}
PTypes == {"double", "Long64_t", "int", "float"}
Modes == {"same", "distinct"}

Name(kind) ==
    CASE kind = "H" -> "hist"
      [] kind = "P" -> "param"
      [] kind = "T" -> "tree"
      [] kind = "D" -> "dir"
      [] OTHER      -> "other"

Node(k, sub) == [kind |-> k, sub |-> sub]

KindsOf(forest) == {forest[j].kind : j \in DOMAIN forest}

\* the skeletons of the key lists with n keys in all, nested at most d deep,
\* the names within one directory distinct
Forests[d \in 0..MaxDepth, n \in 0..MaxRecords] ==
    IF n = 0 THEN {<<>>}
    ELSE { <<Node(x[1], <<>>)>> \o x[2] :
             x \in {y \in LeafKinds \X Forests[d, n - 1] : y[1] \notin KindsOf(y[2])} }
         \cup
         (IF d = 0 THEN {}
          ELSE UNION { { <<Node("D", x[1])>> \o x[2] :
                           x \in Forests[d - 1, m] \X
                                 {r \in Forests[d, n - 1 - m] : "D" \notin KindsOf(r)} }
                       : m \in 0..(n - 1) })

Shapes == UNION {Forests[MaxDepth, n] : n \in 0..MaxRecords}

\* what input i holds: a histogram value, a parameter value, a number of rows
HVal(mode, i) == IF mode = "same" THEN 7 ELSE 2 * i
PVal(mode, i) == IF mode = "same" THEN 2 ELSE i
NRows(mode, i) == IF mode = "same" THEN 1 ELSE i
RowId(i, r) == 100 * i + r

nBinsX == NbinsX + 2
nBinsY == 1 + 2
nBinsZ == 1 + 2

KeyData(kind, mode, i) ==
    CASE kind = "H" -> [b \in 1..nBinsX |-> IF b = 1 THEN 0 ELSE D(HVal(mode, i))]
      [] kind = "P" -> <<D(PVal(mode, i))>>
      [] kind = "T" -> [r \in 1..NRows(mode, i) |-> RowId(i, r)]
      [] kind = "O" -> <<i>>
      [] OTHER      -> <<>>

RECURSIVE Inst(_, _, _, _)
Inst(forest, i, mode, pt) ==
    [j \in 1..Len(forest) |->
        [name  |-> Name(forest[j].kind),
         kind  |-> forest[j].kind,
         ptype |-> IF forest[j].kind = "P" THEN pt ELSE "",
         data  |-> KeyData(forest[j].kind, mode, i),
         err   |-> IF forest[j].kind = "H" THEN [b \in 1..nBinsX |-> 0] ELSE <<>>,
         keys  |-> IF forest[j].kind = "D" THEN Inst(forest[j].sub, i, mode, pt)
                   ELSE <<>>]]

RECURSIVE PathsOf(_)
PathsOf(keys) ==
    UNION { {<<keys[j].name>>} \cup {<<keys[j].name>> \o p : p \in PathsOf(keys[j].keys)}
            : j \in DOMAIN keys }

RECURSIVE Remove(_, _)
Remove(keys, path) ==
    IF Len(path) = 1
    THEN SelectSeq(keys, LAMBDA k : k.name # path[1])
    ELSE [j \in 1..Len(keys) |->
            IF keys[j].name = path[1]
            THEN [keys[j] EXCEPT !.keys = Remove(keys[j].keys, Tail(path))]
            ELSE keys[j]]

NotFound == [name |-> "", kind |-> "null", ptype |-> "", data |-> <<>>,
             err |-> <<>>, keys |-> <<>>]

\* TDirectory::Get(name) on a list of keys
Get(keys, name) ==
    IF \E j \in DOMAIN keys : keys[j].name = name
    THEN keys[CHOOSE j \in DOMAIN keys :
                 keys[j].name = name /\ \A l \in 1..(j - 1) : keys[l].name # name]
    ELSE NotFound

RECURSIVE DirExists(_, _)
DirExists(keys, path) ==
    \/ path = <<>>
    \/ /\ Get(keys, Head(path)).kind = "D"
       /\ DirExists(Get(keys, Head(path)).keys, Tail(path))

RECURSIVE KeysAt(_, _)
KeysAt(keys, path) ==
    IF path = <<>> THEN keys ELSE KeysAt(Get(keys, Head(path)).keys, Tail(path))

Handle(file, path) == [file |-> file, path |-> path]
NullDir == Handle(NoFile, <<>>)

\* ------------------------------------------------------------------ Init
\* the inputs: n files of one shape, input i with its own values, and at most
\* one record (a key or a whole directory) missing from input 2
NoMiss == [file |-> 0, path |-> <<>>]

MissChoices(n, shape) ==
    {NoMiss} \cup {[file |-> i, path |-> p] :
                      i \in {2} \cap (1..n), p \in PathsOf(Inst(shape, 1, "same", "double"))}

HasKind(shape, kinds) ==
    \E p \in PathsOf(Inst(shape, 1, "same", "double")) : p[Len(p)] \in {Name(k) : k \in kinds}

Init ==
    /\ \E n \in 0..MaxFiles, shape \in Shapes, mode \in Modes, pt \in PTypes :
         /\ n = 0 => shape = <<>>
         /\ ~HasKind(shape, {"H", "P", "T", "O"}) => mode = "same"
         /\ ~HasKind(shape, {"P"}) => pt = "double"
         /\ \E miss \in MissChoices(n, shape) :
              inputFiles = [i \in 1..n |->
                              IF miss.file = i
                              THEN Remove(Inst(shape, i, mode, pt), miss.path)
                              ELSE Inst(shape, i, mode, pt)]
    /\ pc = "start"
    /\ gDirectory = NullDir
    /\ stack = <<>>
    /\ written = <<>>
    /\ mkdirs = <<>>
    /\ warnings = <<>>
    /\ messages = <<>>
    /\ visited = <<>>
    /\ objCount = 0
    /\ closed = {}
    /\ outputFile = "none"

\* ---------------------------------------------------------- merge driver
nFiles == Len(inputFiles)

StartNoInputs ==
    /\ pc = "start"
    /\ nFiles < 1
    /\ messages' = Append(messages, "No files found for merging.")
    /\ pc' = "no_inputs"
    /\ UNCHANGED <<inputFiles, gDirectory, stack, written, mkdirs, warnings,
                   visited, objCount, closed, outputFile>>

\* StartOutputFails without its return: the run goes on into the loop
StartOutputFails_NoReturn ==
    /\ pc = "start"
    /\ ~(nFiles < 1)
    /\ outputFile' = "zombie"
    /\ messages' = Append(messages, "Failed to create the output file")
    /\ closed' = closed \cup (1..nFiles)
    /\ gDirectory' = Handle(1, <<>>)
    /\ stack' = <<[sourceDir |-> Handle(1, <<>>), outputDir |-> Handle(OutFile, <<>>),
                   idx |-> 1]>>
    /\ pc' = "walk"
    /\ UNCHANGED <<inputFiles, written, mkdirs, warnings, visited, objCount>>

\* new TFile(..., "RECREATE") gives a zombie
StartOutputFails ==
    /\ pc = "start"
    /\ ~(nFiles < 1)
    /\ outputFile' = "zombie"
    /\ messages' = Append(messages, "Failed to create the output file")
    /\ closed' = closed \cup (1..nFiles)
    /\ pc' = "output_failed"
    /\ UNCHANGED <<inputFiles, gDirectory, stack, written, mkdirs, warnings,
                   visited, objCount>>

\* the output file is created; firstDir->cd() leaves the cursor on inputFiles[0]
StartMerge ==
    /\ pc = "start"
    /\ ~(nFiles < 1)
    /\ outputFile' = "open"
    /\ messages' = Append(messages, "Merging files into")
    /\ gDirectory' = Handle(1, <<>>)
    /\ stack' = <<[sourceDir |-> Handle(1, <<>>), outputDir |-> Handle(OutFile, <<>>),
                   idx |-> 1]>>
    /\ pc' = "walk"
    /\ UNCHANGED <<inputFiles, written, mkdirs, warnings, visited, objCount, closed>>

\* ------------------------------------------------------- library lookups
\* a path string is a sequence of components separated by "/"; a component
\* is the name of an input file (file # NoFile; colon: followed by ":") or
\* a plain key name (text)
FileComp(i) == [file |-> i, colon |-> FALSE, text |-> ""]
FileColonComp(i) == [file |-> i, colon |-> TRUE, text |-> ""]
TextComp(t) == [file |-> NoFile, colon |-> FALSE, text |-> t]

Texts(comps) == [j \in 1..Len(comps) |-> comps[j].text]

\* TFile::GetName()
GetName(i) == <<FileComp(i)>>

\* TDirectory::GetPath(): "<file name>:/<dir>/<dir>"
GetPath(dir) == <<FileColonComp(dir.file)>> \o [j \in 1..Len(dir.path) |-> TextComp(dir.path[j])]

\* TDirectory::GetDirectory(apath) called on input file i: a path that names
\* a file before a colon is resolved in the open file of that name, whatever
\* the file the call is made on; any other path is resolved in file i
GetDirectory(i, apath) ==
    LET named == apath # <<>> /\ apath[1].colon
        f     == IF named THEN apath[1].file ELSE i
        path  == IF named THEN Texts(Tail(apath)) ELSE Texts(apath)
    IN IF f \in 1..nFiles /\ DirExists(inputFiles[f], path)
       THEN Handle(f, path) ELSE NullDir

\* dir->Get(name) on a directory handle of an input file
DirGet(dir, name) == Get(KeysAt(inputFiles[dir.file], dir.path), name)

\* TChain::ParseTreeFilename: the file name ends with the component holding
\* the last ".root", the tree name is what follows
ParseTreeFilename(comps) ==
    LET roots == {j \in 1..Len(comps) : comps[j].file # NoFile}
        pIdx  == IF roots = {} THEN 0 ELSE CHOOSE j \in roots : \A l \in roots : l <= j
    IN [filename |-> SubSeq(comps, 1, pIdx),
        treename |-> Texts(SubSeq(comps, pIdx + 1, Len(comps)))]

\* the rows TChain::LoadTree gets for one chain element; <<>> with ok = FALSE
\* when the file cannot be opened or holds no such tree
LoadElement(comps) ==
    LET pr == ParseTreeFilename(comps)
        fn == pr.filename
        tn == pr.treename
        opens == /\ Len(fn) = 1
                 /\ ~fn[1].colon
                 /\ fn[1].file \in 1..nFiles
                 /\ tn # <<>>
                 /\ DirExists(inputFiles[fn[1].file], SubSeq(tn, 1, Len(tn) - 1))
        tree == IF opens
                THEN Get(KeysAt(inputFiles[fn[1].file], SubSeq(tn, 1, Len(tn) - 1)), tn[Len(tn)])
                ELSE NotFound
    IN [ok |-> tree.kind = "T", rows |-> IF tree.kind = "T" THEN tree.data ELSE <<>>]

RECURSIVE Concat(_)
Concat(seqs) == IF seqs = <<>> THEN <<>> ELSE Head(seqs) \o Concat(Tail(seqs))

\* chain.CloneTree(-1, "fast"): ok = FALSE stands for the null pointer
CloneTree(chain) ==
    LET loaded == [j \in 1..Len(chain) |-> LoadElement(chain[j])]
    IN [ok   |-> \E j \in 1..Len(chain) : loaded[j].ok,
        rows |-> Concat([j \in 1..Len(chain) |-> loaded[j].rows])]

\* mergedTree->Write() through the null pointer CloneTree returned: the run
\* is aborted, one way or the other
NullDerefOutcomes == {"segmentation violation", "interpreter exception"}

\* -------------------------------------------------------------- the walk
Top == stack[Len(stack)]
CurKeys == KeysAt(inputFiles[1], Top.sourceDir.path)
AtKey == pc = "walk" /\ Top.idx <= Len(CurKeys)
Key == CurKeys[Top.idx]
AtRoot == Len(stack) = 1
Advance == [stack EXCEPT ![Len(stack)].idx = @ + 1]
ObjPath == Top.sourceDir.path \o <<Key.name>>

\* obj->InheritsFrom(...) chain of the loop bodies
Classify(obj) ==
    IF obj.kind = "H" THEN "TH1"
    ELSE IF obj.kind = "P" /\ obj.ptype \in {"Long64_t", "int", "double", "float"}
    THEN "TParameter"
    ELSE IF obj.kind = "T" THEN "TTree"
    ELSE IF obj.kind = "D" THEN "TDirectory"
    ELSE "other"

FileIds == [i \in 1..nFiles |-> i]

\* the input files whose top level holds a key of that name, in input order
RootHolders(name) == SelectSeq(FileIds, LAMBDA i : Get(inputFiles[i], name).kind # "null")
RootMissing(name) == SelectSeq(FileIds, LAMBDA i : Get(inputFiles[i], name).kind = "null")

\* the input files for which file->GetDirectory(sourceDir->GetPath()) is not
\* null and dir->Get(name) is not null, resp. is null
NestedHolders(name) ==
    SelectSeq(FileIds, LAMBDA i :
        LET dir == GetDirectory(i, GetPath(Top.sourceDir))
        IN dir # NullDir /\ DirGet(dir, name).kind # "null")
NestedMissing(name) ==
    SelectSeq(FileIds, LAMBDA i :
        LET dir == GetDirectory(i, GetPath(Top.sourceDir))
        IN dir # NullDir /\ DirGet(dir, name).kind = "null")

RootObjs(name) == [j \in 1..Len(RootHolders(name)) |-> Get(inputFiles[RootHolders(name)[j]], name)]
NestedObjs(name) ==
    [j \in 1..Len(NestedHolders(name)) |->
        DirGet(GetDirectory(NestedHolders(name)[j], GetPath(Top.sourceDir)), name)]

\* the clone of obj, Reset(), with the mean and the stddev of the bin contents
\* of the histograms hs set in every bin that has contents
MergeBins(obj, hs) ==
    LET binContents(b) == [j \in 1..Len(hs) |-> hs[j].data[b]]
    IN [obj EXCEPT
          !.data = [b \in 1..nBinsX |-> IF hs # <<>> THEN BinMean(binContents(b)) ELSE 0],
          !.err  = [b \in 1..nBinsX |-> IF hs # <<>> THEN BinStddev(binContents(b)) ELSE 0]]

\* what GetVal() gives through a TParameter<double>*: the value of a
\* TParameter<double>; for the other types the bytes of the member read as a
\* double: an 8-byte integer n reads as n quanta, and a 4-byte member reads
\* together with the 4 indeterminate bytes that follow it (pad: all zero, or
\* not, the same for every read of one visit)
PadChoices == {0, Pow2(MantBits)}

PunnedRead(param, pad) ==
    IF param.ptype = "double" THEN param.data[1]
    ELSE IF param.ptype = "Long64_t" \/ pad = 0 THEN param.data[1] \div Quantum
    ELSE pad

Pads(params) ==
    IF \E j \in 1..Len(params) : params[j].ptype \in {"int", "float"}
    THEN PadChoices ELSE {0}

GetVals(params) ==
    {[j \in 1..Len(params) |-> PunnedRead(params[j], pad)] : pad \in Pads(params)}

TotalParam(obj, vals) == [obj EXCEPT !.ptype = "double", !.data = <<Accumulate(vals, 0)>>]

\* obj.Write(): into the directory the cursor is on (src: the path the
\* object was read from, kept for the record)
Write(cursor, obj) ==
    Append(written, [file |-> cursor.file, dir |-> cursor.path, rec |-> obj,
                     src |-> ObjPath])

Warn(what, name, missing, times) ==
    warnings \o [j \in 1..Len(missing) |->
                    [what |-> what, name |-> name, file |-> missing[j], count |-> times,
                     src |-> ObjPath]]

\* ------------------------------------------- MergeSingleGenFiles: the loop
\* RootHistogram without outputFile->cd(): the cursor stays where it was
RootHistogram_NoCd ==
    /\ AtKey /\ AtRoot /\ Classify(Key) = "TH1"
    /\ warnings' = Warn("Histogram", Key.name, RootMissing(Key.name),
                        nBinsX * nBinsY * nBinsZ)
    /\ written' = Write(gDirectory, MergeBins(Key, RootObjs(Key.name)))
    /\ visited' = Append(visited, ObjPath)
    /\ stack' = Advance
    /\ objCount' = objCount + 1
    /\ UNCHANGED <<inputFiles, pc, gDirectory, mkdirs, messages, closed, outputFile>>

RootHistogram ==
    /\ AtKey /\ AtRoot /\ Classify(Key) = "TH1"
    /\ gDirectory' = Handle(OutFile, <<>>)
    /\ warnings' = Warn("Histogram", Key.name, RootMissing(Key.name),
                        nBinsX * nBinsY * nBinsZ)
    /\ written' = Write(gDirectory', MergeBins(Key, RootObjs(Key.name)))
    /\ visited' = Append(visited, ObjPath)
    /\ stack' = Advance
    /\ objCount' = objCount + 1
    /\ UNCHANGED <<inputFiles, pc, mkdirs, messages, closed, outputFile>>

RootParameter ==
    /\ AtKey /\ AtRoot /\ Classify(Key) = "TParameter"
    /\ warnings' = Warn("Parameter", Key.name, RootMissing(Key.name), 1)
    /\ gDirectory' = Handle(OutFile, <<>>)
    /\ \E vals \in GetVals(RootObjs(Key.name)) :
          written' = Write(gDirectory', TotalParam(Key, vals))
    /\ visited' = Append(visited, ObjPath)
    /\ stack' = Advance
    /\ objCount' = objCount + 1
    /\ UNCHANGED <<inputFiles, pc, mkdirs, messages, closed, outputFile>>

RootTree ==
    /\ AtKey /\ AtRoot /\ Classify(Key) = "TTree"
    /\ warnings' = Warn("Tree", Key.name, RootMissing(Key.name), 1)
    /\ gDirectory' = Handle(OutFile, <<>>)
    /\ visited' = Append(visited, ObjPath)
    /\ LET chain == [j \in 1..Len(RootHolders(Key.name)) |->
                        GetName(RootHolders(Key.name)[j]) \o <<TextComp(Key.name)>>]
           mergedTree == CloneTree(chain)
       IN IF mergedTree.ok
          THEN /\ written' = Write(gDirectory', [Key EXCEPT !.data = mergedTree.rows])
               /\ stack' = Advance
               /\ objCount' = objCount + 1
               /\ UNCHANGED <<pc, messages>>
          ELSE /\ \E how \in NullDerefOutcomes : messages' = Append(messages, how)
               /\ pc' = "crashed"
               /\ UNCHANGED <<written, stack, objCount>>
    /\ UNCHANGED <<inputFiles, mkdirs, closed, outputFile>>

RootDirectory ==
    /\ AtKey /\ AtRoot /\ Classify(Key) = "TDirectory"
    /\ messages' = Append(messages, "Processing subdirectory")
    /\ mkdirs' = Append(mkdirs, Handle(OutFile, <<Key.name>>))
    /\ gDirectory' = Handle(OutFile, <<Key.name>>)
    /\ visited' = Append(visited, ObjPath)
    /\ stack' = Advance \o <<[sourceDir |-> Handle(1, ObjPath),
                              outputDir |-> Handle(OutFile, <<Key.name>>),
                              idx |-> 1]>>
    /\ UNCHANGED <<inputFiles, pc, written, warnings, objCount, closed, outputFile>>

RootOther ==
    /\ AtKey /\ AtRoot /\ Classify(Key) = "other"
    /\ gDirectory' = Handle(OutFile, <<>>)
    /\ written' = Write(gDirectory', Key)
    /\ visited' = Append(visited, ObjPath)
    /\ stack' = Advance
    /\ objCount' = objCount + 1
    /\ UNCHANGED <<inputFiles, pc, mkdirs, warnings, messages, closed, outputFile>>

\* the loop of MergeSingleGenFiles is over: close the files, report success
Finish ==
    /\ pc = "walk" /\ AtRoot /\ ~AtKey
    /\ closed' = closed \cup (1..nFiles)
    /\ outputFile' = "closed"
    /\ messages' = Append(messages, "Merging completed successfully.")
    /\ pc' = "done"
    /\ UNCHANGED <<inputFiles, gDirectory, stack, written, mkdirs, warnings,
                   visited, objCount>>

\* ---------------------------------------------- MergeDirectories: the loop
NestedHistogram ==
    /\ AtKey /\ ~AtRoot /\ Classify(Key) = "TH1"
    /\ written' = Write(gDirectory, MergeBins(Key, NestedObjs(Key.name)))
    /\ visited' = Append(visited, ObjPath)
    /\ stack' = Advance
    /\ UNCHANGED <<inputFiles, pc, gDirectory, mkdirs, warnings, messages,
                   objCount, closed, outputFile>>

NestedParameter ==
    /\ AtKey /\ ~AtRoot /\ Classify(Key) = "TParameter"
    /\ warnings' = Warn("Parameter", Key.name, NestedMissing(Key.name), 1)
    /\ gDirectory' = Top.outputDir
    /\ \E vals \in GetVals(NestedObjs(Key.name)) :
          written' = Write(gDirectory', TotalParam(Key, vals))
    /\ visited' = Append(visited, ObjPath)
    /\ stack' = Advance
    /\ UNCHANGED <<inputFiles, pc, mkdirs, messages, objCount, closed, outputFile>>

NestedTree ==
    /\ AtKey /\ ~AtRoot /\ Classify(Key) = "TTree"
    /\ gDirectory' = Top.outputDir
    /\ visited' = Append(visited, ObjPath)
    /\ LET holders == NestedHolders(Key.name)
           chain == [j \in 1..Len(holders) |->
                        GetName(holders[j])
                        \o GetPath(GetDirectory(holders[j], GetPath(Top.sourceDir)))
                        \o <<TextComp(Key.name)>>]
           mergedTree == CloneTree(chain)
       IN IF mergedTree.ok
          THEN /\ written' = Write(gDirectory', [Key EXCEPT !.data = mergedTree.rows])
               /\ stack' = Advance
               /\ UNCHANGED <<pc, messages>>
          ELSE /\ \E how \in NullDerefOutcomes : messages' = Append(messages, how)
               /\ pc' = "crashed"
               /\ UNCHANGED <<written, stack>>
    /\ UNCHANGED <<inputFiles, mkdirs, warnings, objCount, closed, outputFile>>

NestedDirectory ==
    /\ AtKey /\ ~AtRoot /\ Classify(Key) = "TDirectory"
    /\ mkdirs' = Append(mkdirs, Handle(Top.outputDir.file, Top.outputDir.path \o <<Key.name>>))
    /\ gDirectory' = Handle(Top.outputDir.file, Top.outputDir.path \o <<Key.name>>)
    /\ visited' = Append(visited, ObjPath)
    /\ stack' = Advance \o <<[sourceDir |-> Handle(1, ObjPath),
                              outputDir |-> Handle(Top.outputDir.file,
                                                   Top.outputDir.path \o <<Key.name>>),
                              idx |-> 1]>>
    /\ UNCHANGED <<inputFiles, pc, written, warnings, messages, objCount, closed,
                   outputFile>>

NestedOther ==
    /\ AtKey /\ ~AtRoot /\ Classify(Key) = "other"
    /\ gDirectory' = Top.outputDir
    /\ written' = Write(gDirectory', Key)
    /\ visited' = Append(visited, ObjPath)
    /\ stack' = Advance
    /\ UNCHANGED <<inputFiles, pc, mkdirs, warnings, messages, objCount, closed,
                   outputFile>>

\* MergeDirectories returns; at the root the caller then counts the object
ReturnFromDirectory ==
    /\ pc = "walk" /\ ~AtRoot /\ ~AtKey
    /\ stack' = SubSeq(stack, 1, Len(stack) - 1)
    /\ objCount' = IF Len(stack) = 2 THEN objCount + 1 ELSE objCount
    /\ UNCHANGED <<inputFiles, pc, gDirectory, written, mkdirs, warnings, messages,
                   visited, closed, outputFile>>

Next ==
    \/ StartNoInputs \/ StartOutputFails \/ StartMerge
    \/ RootHistogram \/ RootParameter \/ RootTree \/ RootDirectory \/ RootOther
    \/ NestedHistogram \/ NestedParameter \/ NestedTree \/ NestedDirectory
    \/ NestedOther \/ ReturnFromDirectory \/ Finish

Spec == Init /\ [][Next]_vars

\* ---------------------------------------------------- what the claims say
Front(path) == SubSeq(path, 1, Len(path) - 1)
Last(path) == path[Len(path)]

\* input i holds a record at that path of its own container
HoldsAt(i, path) ==
    /\ DirExists(inputFiles[i], Front(path))
    /\ Get(KeysAt(inputFiles[i], Front(path)), Last(path)).kind # "null"
RecordAt(i, path) == Get(KeysAt(inputFiles[i], Front(path)), Last(path))
SpecHolders(path) == SelectSeq(FileIds, LAMBDA i : HoldsAt(i, path))
SpecRecords(path) == [j \in 1..Len(SpecHolders(path)) |-> RecordAt(SpecHolders(path)[j], path)]

RefPaths == IF nFiles < 1 THEN {} ELSE PathsOf(inputFiles[1])
RefKind(path) == RecordAt(1, path).kind

OutPaths ==
    {written[k].dir \o <<written[k].rec.name>> :
        k \in {l \in 1..Len(written) : written[l].file = OutFile}}
    \cup {mkdirs[k].path : k \in {l \in 1..Len(mkdirs) : mkdirs[l].file = OutFile}}

WriteCount(path) ==
    Cardinality({k \in 1..Len(written) :
                    /\ written[k].file = OutFile
                    /\ written[k].dir \o <<written[k].rec.name>> = path})
    + Cardinality({k \in 1..Len(mkdirs) :
                    mkdirs[k].file = OutFile /\ mkdirs[k].path = path})

RECURSIVE SumSeq(_)
SumSeq(s) == IF s = <<>> THEN 0 ELSE Head(s) + SumSeq(Tail(s))

WarnCount(path, i) ==
    SumSeq([k \in 1..Len(warnings) |->
               IF warnings[k].src = path /\ warnings[k].file = i
               THEN warnings[k].count ELSE 0])

\* the records of a key list, depth first, siblings in the order of the list
RECURSIVE DepthFirst(_, _)
DepthFirst(keys, prefix) ==
    IF keys = <<>> THEN <<>>
    ELSE <<prefix \o <<Head(keys).name>>>>
         \o DepthFirst(Head(keys).keys, prefix \o <<Head(keys).name>>)
         \o DepthFirst(Tail(keys), prefix)

\* C1: after a completed merge the record paths of the output are exactly the
\* record paths of the reference tree, and every record was written into the
\* output directory that mirrors the directory it was read from.
C1_OutputPathsEqualReference ==
    pc = "done" =>
        /\ OutPaths = RefPaths
        /\ \A k \in 1..Len(written) :
              written[k].file = OutFile /\ written[k].dir = Front(written[k].src)

\* C2: every merged histogram bin, guard bins included, at the root and in
\* nested directories, is sum/count over exactly the inputs that hold the
\* histogram at the same path of their own container.
C2_MeanOverHolders ==
    \A k \in 1..Len(written) :
        written[k].rec.kind = "H" =>
            \A b \in 1..nBinsX :
                written[k].rec.data[b] =
                    BinMean([j \in 1..Len(SpecRecords(written[k].src)) |->
                                SpecRecords(written[k].src)[j].data[b]])

\* C3: every merged TParameter (Long64_t, int, double or float), at the root
\* and in nested directories, holds the exact sum of the values the record
\* has in the inputs that hold it at the same path.
C3_ExactSumOverHolders ==
    \A k \in 1..Len(written) :
        written[k].rec.kind = "P" =>
            written[k].rec.data[1] =
                SumSeq([j \in 1..Len(SpecRecords(written[k].src)) |->
                           SpecRecords(written[k].src)[j].data[1]])

\* C4: once the run is over, every TTree of the reference tree, at the root
\* and in nested directories, has a merged tree whose rows are the rows of the
\* inputs that hold it, concatenated in input order.
C4_RowsConcatenated ==
    pc \in {"done", "crashed"} =>
        \A p \in RefPaths :
            RefKind(p) = "T" =>
                \E k \in 1..Len(written) :
                    /\ written[k].src = p
                    /\ written[k].rec.data =
                          Concat([j \in 1..Len(SpecRecords(p)) |-> SpecRecords(p)[j].data])

\* C5: when all the inputs that contribute to a bin report the same value v,
\* the merged bin value is v and the merged bin uncertainty is exactly 0, for
\* every count >= 1.
C5_EqualValuesGiveZeroStddev ==
    \A k \in 1..Len(written) :
        written[k].rec.kind = "H" =>
            \A b \in 1..nBinsX :
                LET recs == SpecRecords(written[k].src)
                IN (\A j \in 1..Len(recs) : recs[j].data[b] = recs[1].data[b]) =>
                      /\ written[k].rec.data[b] = recs[1].data[b]
                      /\ written[k].rec.err[b] = 0

\* C6: a histogram, parameter or tree missing from a non-reference input never
\* aborts the merge, and exactly one warning is reported for each (record,
\* missing input) pair.
C6_OneWarningPerMissingRecord ==
    \A k \in 1..Len(visited) :
        RefKind(visited[k]) \in {"H", "P", "T"} =>
            \A i \in 2..nFiles :
                ~HoldsAt(i, visited[k]) =>
                    /\ WarnCount(visited[k], i) = 1
                    /\ pc # "crashed"

Count(seq, x) == Cardinality({k \in 1..Len(seq) : seq[k] = x})

\* C7: with no input the driver reports the no-inputs failure, creates no
\* output and visits nothing; when the output cannot be created it reports the
\* output-creation failure, visits and writes nothing; the success message is
\* emitted in neither case; in every other case the walk is started exactly
\* once, at the root.
C7_FatalPreconditionsStop ==
    /\ nFiles < 1 =>
          /\ pc \in {"start", "no_inputs"}
          /\ outputFile = "none"
          /\ visited = <<>> /\ written = <<>> /\ mkdirs = <<>> /\ stack = <<>>
    /\ pc = "no_inputs" => messages = <<"No files found for merging.">>
    /\ outputFile = "zombie" =>
          /\ pc = "output_failed"
          /\ messages = <<"Failed to create the output file">>
          /\ visited = <<>> /\ written = <<>> /\ mkdirs = <<>> /\ stack = <<>>
    /\ Count(messages, "Merging completed successfully.") > 0 =>
          pc = "done" /\ outputFile = "closed" /\ nFiles >= 1
    /\ pc \in {"walk", "done", "crashed"} =>
          /\ outputFile \in {"open", "closed"}
          /\ Count(messages, "Merging files into") = 1
          /\ stack[1].sourceDir = Handle(1, <<>>)
          /\ stack[1].outputDir = Handle(OutFile, <<>>)

C7_Witness == pc = "output_failed" /\ outputFile = "zombie" /\ nFiles >= 1 /\ visited = <<>>

\* C8: no output path is written more than once at any point of the run, and
\* at the end every path of the reference tree has been written exactly once.
C8_WriteOncePerPath ==
    /\ \A p \in OutPaths : WriteCount(p) <= 1
    /\ pc = "done" => \A p \in RefPaths : WriteCount(p) = 1

\* C9: no step changes an input container, and every write and every mkdir
\* targets the output container.
C9_InputsNeverMutated ==
    /\ [](/\ \A k \in 1..Len(written) : written[k].file = OutFile
          /\ \A k \in 1..Len(mkdirs) : mkdirs[k].file = OutFile)
    /\ [][inputFiles' = inputFiles]_vars

C9_Witness ==
    /\ pc = "done" /\ nFiles >= 2
    /\ \E k \in 1..Len(written) : written[k].rec.kind = "H" /\ written[k].dir = <<>>
    /\ mkdirs # <<>>

\* C10: the walk visits the records of the reference tree depth first in the
\* reference's order, none skipped or revisited, and is over only when all of
\* them have been visited.
C10_VisitsAllDepthFirst ==
    LET order == IF nFiles < 1 THEN <<>> ELSE DepthFirst(inputFiles[1], <<>>)
    IN /\ Len(visited) <= Len(order)
       /\ visited = SubSeq(order, 1, Len(visited))
       /\ pc \in {"done", "crashed"} => visited = order

====
